---- MODULE Spec2Model ----
(***************************************************************************)
(* r2proto3: translation of marked Rust structs and enums into a proto3    *)
(* schema.  Strings are sequences of one-character strings, so that the    *)
(* regular expressions, the splitter and the text normalisation of the     *)
(* source act on characters exactly as the code does.                      *)
(***************************************************************************)
EXTENDS Integers, Sequences, FiniteSets, TLC

VARIABLES splitter, resolver, numbering, enumr, prog

vars == <<splitter, resolver, numbering, enumr, prog>>

(***************************************************************************)
(* Characters and strings                                                  *)
(***************************************************************************)

Lower == {"a","b","c","d","e","f","g","h","i","j","k","l","m",
          "n","o","p","q","r","s","t","u","v","w","x","y","z"}

Upper == {"A","B","C","D","E","F","G","H","I","J","K","L","M",
          "N","O","P","Q","R","S","T","U","V","W","X","Y","Z"}

Digit == {"0","1","2","3","4","5","6","7","8","9"}

\* The character class [a-zA-Z0-9<>()\[\],:_ ] of the three type regexes.
InnerClass == Lower \cup Upper \cup Digit \cup
              {"<", ">", "(", ")", "[", "]", ",", ":", "_", " "}

\* char::is_whitespace, for the characters a source line can hold.
Whitespace == {" ", "\t"}

Max(S) == CHOOSE x \in S : \A y \in S : y <= x

Min(S) == CHOOSE x \in S : \A y \in S : x <= y

\* s[from..] of Rust (1-based here).
Suffix(s, from) == SubSeq(s, from, Len(s))

\* str::starts_with
StartsWith(s, p) == Len(s) >= Len(p) /\ SubSeq(s, 1, Len(p)) = p

\* str::ends_with
EndsWith(s, p) == Len(s) >= Len(p) /\ SubSeq(s, Len(s) - Len(p) + 1, Len(s)) = p

\* The pattern p occurs in s at position i.
OccursAt(s, p, i) == i >= 1 /\ i + Len(p) - 1 <= Len(s) /\ SubSeq(s, i, i + Len(p) - 1) = p

\* str::find: the first position of p in s, 0 when there is none.
Find(s, p) ==
  LET hits == {i \in 1..Len(s) : OccursAt(s, p, i)}
  IN IF hits = {} THEN 0 ELSE Min(hits)

\* str::trim
Trim(s) ==
  LET keep == {i \in 1..Len(s) : s[i] \notin Whitespace}
  IN IF keep = {} THEN <<>> ELSE SubSeq(s, Min(keep), Max(keep))

\* str::replace(p, ""): every occurrence of p, left to right, removed.
RECURSIVE Remove(_, _)
Remove(s, p) ==
  LET at == Find(s, p)
  IN IF at = 0 THEN s
     ELSE SubSeq(s, 1, at - 1) \o Remove(Suffix(s, at + Len(p)), p)

Ok(v) == [ok |-> TRUE, val |-> v]

Err(kind) == [ok |-> FALSE, err |-> kind]

(***************************************************************************)
(* TypesParser::split_inner_types                                          *)
(***************************************************************************)

OPENERS == <<"<", "(", "[">>

CLOSERS == <<">", ")", "]">>

\* OPENERS.iter().position(|c| *c == sym), 0 for None.
OpenerPos(sym) ==
  IF \E k \in 1..3 : OPENERS[k] = sym THEN CHOOSE k \in 1..3 : OPENERS[k] = sym ELSE 0

\* CLOSERS.iter().position(|c| *c == sym), 0 for None.
CloserPos(sym) ==
  IF \E k \in 1..3 : CLOSERS[k] = sym THEN CHOOSE k \in 1..3 : CLOSERS[k] = sym ELSE 0

\* The condition under which a comma at char index i (0-based) closes an argument.
CommaSplits(stack, begin_index, i) == stack = <<>> /\ begin_index + 1 < i

\* The closer at CLOSERS[pos] does not close the stack's top.
CloserFails(stack, pos) ==
  stack = <<>> \/ OpenerPos(stack[Len(stack)]) # pos

\* One iteration of the loop of split_inner_types, at char index i (0-based):
\* the stack, the arguments pushed and begin_index after it, or the error.
SplitStep(inner, i, stack, types, begin_index) ==
  LET sym == inner[i + 1]
  IN IF OpenerPos(sym) # 0
     THEN [ok |-> TRUE, stack |-> Append(stack, sym), types |-> types,
           begin_index |-> begin_index]
     ELSE IF CloserPos(sym) # 0
     THEN IF CloserFails(stack, CloserPos(sym))
          THEN Err("mismatched")
          ELSE [ok |-> TRUE, stack |-> SubSeq(stack, 1, Len(stack) - 1), types |-> types,
                begin_index |-> begin_index]
     ELSE IF sym = "," /\ CommaSplits(stack, begin_index, i)
     THEN [ok |-> TRUE, stack |-> stack,
           types |-> Append(types, SubSeq(inner, begin_index + 1, i)),
           begin_index |-> i + 1]
     ELSE [ok |-> TRUE, stack |-> stack, types |-> types, begin_index |-> begin_index]

\* The loop of split_inner_types from char index i on, and the last push.
RECURSIVE SplitScan(_, _, _, _, _)
SplitScan(inner, i, stack, types, begin_index) ==
  IF i >= Len(inner)
  THEN Ok(Append(types, Suffix(inner, begin_index + 1)))
  ELSE LET step == SplitStep(inner, i, stack, types, begin_index)
       IN IF ~step.ok THEN step
          ELSE SplitScan(inner, i + 1, step.stack, step.types, step.begin_index)

split_inner_types(inner) == SplitScan(inner, 0, <<>>, <<>>, 0)

(***************************************************************************)
(* TypesParser: the regexes, the text normalisation, the resolver          *)
(***************************************************************************)

sVecOpen == <<"V","e","c","<">>

sOptionOpen == <<"O","p","t","i","o","n","<">>

sHashMapOpen == <<"H","a","s","h","M","a","p","<">>

sBTreeMapOpen == <<"B","T","r","e","e","M","a","p","<">>

sRepeated == <<"r","e","p","e","a","t","e","d">>

sOptional == <<"o","p","t","i","o","n","a","l">>

sMapOpen == <<"m","a","p","<">>

\* The exact-match arms of rust_type_to_protobuf: the Rust spelling, the proto3
\* spelling, and whether the arm answers Ok when for_map_key is set.
ScalarTable == <<
  [rust |-> <<"f","6","4">>, proto |-> <<"d","o","u","b","l","e">>, key |-> FALSE],
  [rust |-> <<"f","3","2">>, proto |-> <<"f","l","o","a","t">>, key |-> FALSE],
  [rust |-> <<"f","1","6">>, proto |-> <<"f","l","o","a","t">>, key |-> FALSE],
  [rust |-> <<"f","8">>, proto |-> <<"f","l","o","a","t">>, key |-> FALSE],
  [rust |-> <<"i","6","4">>, proto |-> <<"i","n","t","6","4">>, key |-> TRUE],
  [rust |-> <<"i","3","2">>, proto |-> <<"i","n","t","3","2">>, key |-> TRUE],
  [rust |-> <<"i","1","6">>, proto |-> <<"i","n","t","3","2">>, key |-> TRUE],
  [rust |-> <<"i","8">>, proto |-> <<"i","n","t","3","2">>, key |-> TRUE],
  [rust |-> <<"u","6","4">>, proto |-> <<"u","i","n","t","6","4">>, key |-> TRUE],
  [rust |-> <<"u","3","2">>, proto |-> <<"u","i","n","t","3","2">>, key |-> TRUE],
  [rust |-> <<"u","1","6">>, proto |-> <<"u","i","n","t","3","2">>, key |-> TRUE],
  [rust |-> <<"u","8">>, proto |-> <<"u","i","n","t","3","2">>, key |-> TRUE],
  [rust |-> <<"b","o","o","l">>, proto |-> <<"b","o","o","l">>, key |-> TRUE],
  [rust |-> <<"S","t","r","i","n","g">>, proto |-> <<"s","t","r","i","n","g">>, key |-> TRUE],
  [rust |-> <<"V","e","c","<","u","8",">">>, proto |-> <<"b","y","t","e","s">>, key |-> FALSE] >>

NoMatch == [found |-> FALSE]

\* Regex `open([class]*)>` tried at position p of s: after `open`, the class run is
\* taken greedily and given back down to its last `>`, which closes the match; the
\* capture is what lies before that `>`.
CaptureAt(s, open, p) ==
  IF ~OccursAt(s, open, p) THEN NoMatch
  ELSE LET from == p + Len(open)
           stop == {j \in from..Len(s) : s[j] \notin InnerClass}
           last == IF stop = {} THEN Len(s) ELSE Min(stop) - 1
           gts  == {j \in from..last : s[j] = ">"}
       IN IF gts = {} THEN NoMatch
          ELSE [found |-> TRUE, at |-> p, inner |-> SubSeq(s, from, Max(gts) - 1)]

\* captures_iter(s).next() of an unanchored regex `open([class]*)>`: the leftmost
\* position at which it matches.
FirstCapture(s, open) ==
  LET hits == {p \in 1..Len(s) : CaptureAt(s, open, p).found}
  IN IF hits = {} THEN NoMatch ELSE CaptureAt(s, open, Min(hits))

inner_vec_type_re(s) == FirstCapture(s, sVecOpen)

inner_option_type_re(s) == FirstCapture(s, sOptionOpen)

\* The alternation (HashMap<(..)>)|(BTreeMap<(..)>): the leftmost match of either
\* branch (the two cannot match at one position).
inner_map_type_re(s) ==
  LET h == FirstCapture(s, sHashMapOpen)
      b == FirstCapture(s, sBTreeMapOpen)
  IN IF ~h.found THEN b
     ELSE IF ~b.found THEN h
     ELSE IF h.at < b.at THEN h ELSE b

drop_type_unnecessary_stuff(rust_type) ==
  LET t0  == Trim(rust_type)
      pos == Find(t0, <<"/", "/">>)
      t1  == IF pos # 0 THEN Trim(SubSeq(t0, 1, pos - 1)) ELSE t0
  IN IF EndsWith(t1, <<",">>) THEN SubSeq(t1, 1, Len(t1) - 1) ELSE t1

clear_type_name(name) ==
  Remove(Remove(Remove(name, <<"p","u","b"," ">>), <<"p","u","b","(","c","r","a","t","e",")"," ">>), <<"p","u","b","(","s","u","p","e","r",")"," ">>)

\* inner_type.starts_with("repeated")
IsRepeated(inner_type) == StartsWith(inner_type, sRepeated)

\* inner_type.starts_with("optional")
IsOptional(inner_type) == StartsWith(inner_type, sOptional)

\* The regexes are tried in this order; the first that matches anywhere decides.
WrapperOf(rust_type) ==
  IF inner_vec_type_re(rust_type).found THEN "Vec"
  ELSE IF inner_option_type_re(rust_type).found THEN "Option"
  ELSE IF inner_map_type_re(rust_type).found THEN "Map"
  ELSE "none"

\* An exact-match arm: the float and byte arms answer the key error for a map key.
ScalarArm(row, rust_type, for_map_key) ==
  IF row.key \/ ~for_map_key THEN Ok(row.proto)
  ELSE [ok |-> FALSE, err |-> "unsupported_key", what |-> rust_type]

\* The Vec arm once its inner type is resolved (`?` hands an error on).
VecArm(inner_type) ==
  IF ~inner_type.ok THEN inner_type
  ELSE IF IsRepeated(inner_type.val) THEN Err("double_repeated")
  ELSE Ok(sRepeated \o <<" ">> \o inner_type.val)

\* The Option arm once its inner type is resolved.
OptionArm(inner_type) ==
  IF ~inner_type.ok THEN inner_type
  ELSE IF IsOptional(inner_type.val) THEN Err("double_optional")
  ELSE Ok(sOptional \o <<" ">> \o inner_type.val)

\* The end of the map arm: the key's error first, then the value's, else the map.
MapArm(inner_key_type, inner_value_type) ==
  IF ~inner_key_type.ok THEN inner_key_type
  ELSE IF ~inner_value_type.ok THEN inner_value_type
  ELSE Ok(sMapOpen \o inner_key_type.val \o <<",", " ">> \o inner_value_type.val \o <<">">>)

\* The last two arms: a declared name, or the unknown-type error.
NameArm(rust_type, known_types) ==
  IF rust_type \in known_types THEN Ok(rust_type)
  ELSE [ok |-> FALSE, err |-> "unknown_type", what |-> rust_type]

RECURSIVE rust_type_to_protobuf(_, _, _)
RECURSIVE MapInners(_, _)

\* The map arm after split_inner_types: its error, the arity error, or the two
\* arguments resolved, the first as a key.
MapInners(parts, known_types) ==
  IF ~parts.ok THEN parts
  ELSE IF Len(parts.val) # 2 THEN Err("wrong_arity")
  ELSE MapArm(rust_type_to_protobuf(drop_type_unnecessary_stuff(parts.val[1]),
                                    known_types, TRUE),
              rust_type_to_protobuf(drop_type_unnecessary_stuff(parts.val[2]),
                                    known_types, FALSE))

\* The arm the wrapper w selects.
WrapperArm(w, rust_type, known_types) ==
  CASE w = "Vec" ->
         VecArm(rust_type_to_protobuf(inner_vec_type_re(rust_type).inner, known_types, FALSE))
    [] w = "Option" ->
         OptionArm(rust_type_to_protobuf(inner_option_type_re(rust_type).inner,
                                         known_types, FALSE))
    [] w = "Map" ->
         MapInners(split_inner_types(inner_map_type_re(rust_type).inner), known_types)
    [] OTHER -> NameArm(rust_type, known_types)

\* The rows of the scalar table that spell rust_type.
ScalarRows(rust_type) == {k \in 1..Len(ScalarTable) : ScalarTable[k].rust = rust_type}

rust_type_to_protobuf(rust_type, known_types, for_map_key) ==
  IF ScalarRows(rust_type) # {}
  THEN ScalarArm(ScalarTable[CHOOSE k \in ScalarRows(rust_type) : TRUE],
                 rust_type, for_map_key)
  ELSE WrapperArm(WrapperOf(rust_type), rust_type, known_types)

(***************************************************************************)
(* Parser::parse_struct_fields: the field-number counter                   *)
(***************************************************************************)

\* value_cntr == 19_000
ReservedFrom == 19000

\* value_cntr = 20_000
ReservedSkipTo == 20000

\* value_cntr == 536_870_912
FieldNumLimit == 536870912

\* The counter without the jump over the reserved band.
BumpCntrNoSkip(value_cntr) ==
  IF value_cntr + 1 = FieldNumLimit
  THEN [value_cntr |-> value_cntr + 1, too_big |-> TRUE]
  ELSE [value_cntr |-> value_cntr + 1, too_big |-> FALSE]

\* The end of one iteration: the counter is incremented, moved past the reserved
\* band, and the struct is given up when the counter reaches the limit.
BumpCntr(value_cntr) ==
  IF value_cntr + 1 = ReservedFrom
  THEN [value_cntr |-> ReservedSkipTo, too_big |-> FALSE]
  ELSE IF value_cntr + 1 = FieldNumLimit
  THEN [value_cntr |-> value_cntr + 1, too_big |-> TRUE]
  ELSE [value_cntr |-> value_cntr + 1, too_big |-> FALSE]

(***************************************************************************)
(* Parser::parse_enum_fields                                               *)
(***************************************************************************)

\* variant.contains('(')
VariantRejected(variant) == \E i \in 1..Len(variant) : variant[i] = "("

\* The variant pushed with the counter already incremented.
PushVariantLate(variants, name, variant_id_cntr) ==
  Append(variants, [name |-> name, value |-> variant_id_cntr + 1])

\* variants.push(ProtobufEnumVariant { name, value: variant_id_cntr })
PushVariant(variants, name, variant_id_cntr) ==
  Append(variants, [name |-> name, value |-> variant_id_cntr])

\* The loop of parse_enum_fields from line k on.
RECURSIVE EnumScan(_, _, _, _)
EnumScan(variants_str, k, variants, variant_id_cntr) ==
  IF k > Len(variants_str) THEN Ok(variants)
  ELSE LET variant == drop_type_unnecessary_stuff(variants_str[k])
       IN IF VariantRejected(variant)
          THEN [ok |-> FALSE, err |-> "value_variant", what |-> variant]
          ELSE EnumScan(variants_str, k + 1,
                        PushVariant(variants, variant, variant_id_cntr),
                        variant_id_cntr + 1)

parse_enum_fields(variants_str) == EnumScan(variants_str, 1, <<>>, 0)

(***************************************************************************)
(* Parser: parse_struct_fields, the registry, generate                     *)
(***************************************************************************)

DigitChars == <<"0","1","2","3","4","5","6","7","8","9">>

\* format!("{}", n) of a non-negative integer.
RECURSIVE ToDecimal(_)
ToDecimal(n) ==
  IF n < 10 THEN <<DigitChars[n + 1]>>
  ELSE ToDecimal(n \div 10) \o <<DigitChars[(n % 10) + 1]>>

\* The lines of a declaration body that parse() keeps: trimmed, not empty, not
\* starting with `#` or `/`.
RECURSIVE FilterLines(_)
FilterLines(body) ==
  IF body = <<>> THEN <<>>
  ELSE LET p == Trim(Head(body))
       IN IF p = <<>> \/ p[1] = "#" \/ p[1] = "/"
          THEN FilterLines(Tail(body))
          ELSE <<p>> \o FilterLines(Tail(body))

\* The field of one line once its type is resolved, or the resolver's error.
MakeField(name, rust_type, proto3_type, value_cntr) ==
  IF ~proto3_type.ok THEN proto3_type
  ELSE Ok([name |-> name, rust_type |-> rust_type, proto3_type |-> proto3_type.val,
           field_num |-> value_cntr])

\* A line without `:` is the anonymous value of a tuple struct.
AnonymousField(field, known_types, value_cntr) ==
  MakeField(<<"a","n","o","n","y","m","o","u","s","_","v","a","l","u","e","_">> \o ToDecimal(value_cntr),
            drop_type_unnecessary_stuff(field),
            rust_type_to_protobuf(drop_type_unnecessary_stuff(field), known_types, FALSE),
            value_cntr)

\* A line `name: type`: the name is what precedes the first `:`, the type the rest.
NamedField(field, colon, known_types, value_cntr) ==
  MakeField(clear_type_name(SubSeq(field, 1, colon - 1)),
            drop_type_unnecessary_stuff(Suffix(field, colon + 1)),
            rust_type_to_protobuf(drop_type_unnecessary_stuff(Suffix(field, colon + 1)),
                                  known_types, FALSE),
            value_cntr)

\* One line of a struct turned into its field.
ParseField(field, known_types, value_cntr) ==
  IF Find(field, <<":">>) = 0
  THEN AnonymousField(field, known_types, value_cntr)
  ELSE NamedField(field, Find(field, <<":">>), known_types, value_cntr)

RECURSIVE StructScan(_, _, _, _, _)
RECURSIVE StructLine(_, _, _, _, _, _)

\* The rest of one iteration once the line's field f and the counter's move b are
\* known: the resolver's error, the too-large error, or the field pushed and the
\* loop going on.
StructLine(fields_str, known_types, k, fields, f, b) ==
  IF ~f.ok THEN f
  ELSE IF b.too_big THEN Err("too_big")
  ELSE StructScan(fields_str, known_types, k + 1, Append(fields, f.val), b.value_cntr)

\* The loop of parse_struct_fields from line k on.
StructScan(fields_str, known_types, k, fields, value_cntr) ==
  IF k > Len(fields_str) THEN Ok(fields)
  ELSE StructLine(fields_str, known_types, k, fields,
                  ParseField(fields_str[k], known_types, value_cntr),
                  BumpCntr(value_cntr))

parse_struct_fields(fields_str, known_types) ==
  StructScan(fields_str, known_types, 1, <<>>, 1)

\* A registry that keeps the entry it already has.
InsertIfAbsent(types, name, entity) ==
  [n \in DOMAIN types \cup {name} |-> IF n \in DOMAIN types THEN types[n] ELSE entity]

\* BTreeMap::insert
Insert(types, name, entity) ==
  [n \in DOMAIN types \cup {name} |-> IF n = name THEN entity ELSE types[n]]

\* The bytes of the characters of an entity name, in their order.
NameChars == <<"0","1","2","3","4","5","6","7","8","9",
               "A","B","C","D","E","F","G","H","I","J","K","L","M",
               "N","O","P","Q","R","S","T","U","V","W","X","Y","Z", "_",
               "a","b","c","d","e","f","g","h","i","j","k","l","m",
               "n","o","p","q","r","s","t","u","v","w","x","y","z">>

CharCode(c) == CHOOSE k \in 1..Len(NameChars) : NameChars[k] = c

\* Ord for String: a < b.
StrLess(a, b) ==
  \/ \E i \in 1..Len(a) :
       /\ i <= Len(b)
       /\ SubSeq(a, 1, i - 1) = SubSeq(b, 1, i - 1)
       /\ CharCode(a[i]) < CharCode(b[i])
  \/ Len(a) < Len(b) /\ SubSeq(b, 1, Len(a)) = a

\* The keys of the registry in the order BTreeMap iterates them.
RECURSIVE SortedNames(_)
SortedNames(S) ==
  IF S = {} THEN <<>>
  ELSE LET m == CHOOSE x \in S : \A y \in S \ {x} : StrLess(x, y)
       IN <<m>> \o SortedNames(S \ {m})

RECURSIVE FieldLines(_)
FieldLines(fields) ==
  IF fields = <<>> THEN <<>>
  ELSE <<(<<" ", " ">> \o Head(fields).proto3_type \o <<" ">> \o Head(fields).name
          \o <<" ", "=", " ">> \o ToDecimal(Head(fields).field_num) \o <<";">>)>>
       \o FieldLines(Tail(fields))

RECURSIVE VariantLines(_)
VariantLines(variants) ==
  IF variants = <<>> THEN <<>>
  ELSE <<(<<" ", " ">> \o Head(variants).name \o <<" ", "=", " ">>
          \o ToDecimal(Head(variants).value) \o <<";">>)>>
       \o VariantLines(Tail(variants))

sMessage == <<"m","e","s","s","a","g","e"," ">>

sEnum == <<"e","n","u","m"," ">>

\* The lines one entity adds to the document.
EntityLines(type_name, entity) ==
  IF entity.kind = "Message"
  THEN << <<>>, sMessage \o type_name \o <<" ", "{">> >> \o FieldLines(entity.items)
       \o << <<"}">> >>
  ELSE << <<>>, sEnum \o type_name \o <<" ", "{">> >> \o VariantLines(entity.items)
       \o << <<"}">> >>

RECURSIVE GenerateFrom(_, _)
GenerateFrom(names, types) ==
  IF names = <<>> THEN <<>>
  ELSE EntityLines(Head(names), types[Head(names)]) \o GenerateFrom(Tail(names), types)

\* Parser::generate: the lines of the document.
generate(types) ==
  << <<"s","y","n","t","a","x"," ","="," ","\"","p","r","o","t","o","3","\"",";">> >> \o GenerateFrom(SortedNames(DOMAIN types), types)

(***************************************************************************)
(* Values of the parts of the state a specification leaves alone           *)
(***************************************************************************)

None == [none |-> TRUE]

IdleSplitter == [inner |-> <<>>, done |-> FALSE, result |-> None]

IdleResolver == [rust_type |-> <<>>, wrap |-> "idle", inner |-> <<>>, key |-> <<>>,
                 value |-> <<>>, depth |-> 0, result |-> None]

IdleNumbering == [value_cntr |-> 0, nfields |-> 0, last_num |-> 0,
                  prev_num |-> 0, status |-> "idle"]

IdleEnumr == [variants_str |-> <<>>, done |-> FALSE, result |-> None]

IdleProg == [pc |-> "idle", files |-> <<>>, panic_to_unsupported |-> FALSE,
             next_file |-> 1, messages |-> <<>>, enums |-> <<>>, known_types |-> {},
             dublicates |-> 0, next_message |-> 1, next_enum |-> 1, types |-> <<>>,
             warnings |-> <<>>, parse_result |-> None, output |-> None]

(***************************************************************************)
(* SpecSplit: split_inner_types applied to the texts over its alphabet     *)
(***************************************************************************)

MaxSplitLen == 4

SplitAlphabet == {"A", ",", " ", "<", ">", "(", ")", "[", "]"}

\* The inputs of the unit test of the source, and the example of the specification.
SplitSeeds == { <<>>, <<"S","t","r","i","n","g",","," ","i","3","2">>, <<"S","t","r","i","n","g",","," ","u","3","2">>, <<"A","<","B",",","C",">",","," ","D">> }

SplitInit ==
  /\ splitter \in {[inner |-> s, done |-> FALSE, result |-> None] : s \in SplitSeeds}
  /\ resolver = IdleResolver
  /\ numbering = IdleNumbering
  /\ enumr = IdleEnumr
  /\ prog = IdleProg

\* The caller's text grows by one character.
SplitExtend(c) ==
  /\ ~splitter.done
  /\ Len(splitter.inner) < MaxSplitLen
  /\ splitter' = [splitter EXCEPT !.inner = Append(@, c)]
  /\ UNCHANGED <<resolver, numbering, enumr, prog>>

SplitCall ==
  /\ ~splitter.done
  /\ splitter' = [splitter EXCEPT !.done = TRUE,
                                  !.result = split_inner_types(splitter.inner)]
  /\ UNCHANGED <<resolver, numbering, enumr, prog>>

SplitNext == (\E c \in SplitAlphabet : SplitExtend(c)) \/ SplitCall

SpecSplit == SplitInit /\ [][SplitNext]_vars

(***************************************************************************)
(* SpecTypes: rust_type_to_protobuf applied to type expressions built by   *)
(* wrapping: scalars and declared names inside Vec, Option and the maps    *)
(***************************************************************************)

MaxWraps == 2

tString == <<"S","t","r","i","n","g">>

tI32 == <<"i","3","2">>

tU8 == <<"u","8">>

tF64 == <<"f","6","4">>

tBytes == <<"V","e","c","<","u","8",">">>

\* Declared type names: a one-letter one, an ordinary one, and two whose spelling
\* begins with a proto3 label.
tA == <<"A">>

tFoo == <<"F","o","o">>

tRepeatedFoo == <<"r","e","p","e","a","t","e","d","F","o","o">>

tOptionalFoo == <<"o","p","t","i","o","n","a","l","F","o","o">>

\* A name no declaration introduces.
tBar == <<"B","a","r">>

KnownTypes == {tA, tFoo, tRepeatedFoo, tOptionalFoo}

Scalars == {ScalarTable[k].rust : k \in 1..Len(ScalarTable)}

TypeAtoms == Scalars \cup KnownTypes \cup {tBar}

\* The other argument of a map wrapped around the current expression.
MapPartners == {tString, tI32, tF64, tBytes, tA, tFoo}

MapOpens == {sHashMapOpen, sBTreeMapOpen}

Resolved(rust_type, wrap, inner, key, value, depth) ==
  [rust_type |-> rust_type, wrap |-> wrap, inner |-> inner, key |-> key,
   value |-> value, depth |-> depth,
   result |-> rust_type_to_protobuf(rust_type, KnownTypes, FALSE)]

TypesInit ==
  /\ resolver \in {Resolved(t, "none", <<>>, <<>>, <<>>, 0) : t \in TypeAtoms}
  /\ splitter = IdleSplitter
  /\ numbering = IdleNumbering
  /\ enumr = IdleEnumr
  /\ prog = IdleProg

\* A field of type Vec<T>, T the current expression.
WrapVec ==
  /\ resolver.depth < MaxWraps
  /\ resolver' = Resolved(sVecOpen \o resolver.rust_type \o <<">">>, "Vec",
                          resolver.rust_type, <<>>, <<>>, resolver.depth + 1)
  /\ UNCHANGED <<splitter, numbering, enumr, prog>>

\* A field of type Option<T>.
WrapOption ==
  /\ resolver.depth < MaxWraps
  /\ resolver' = Resolved(sOptionOpen \o resolver.rust_type \o <<">">>, "Option",
                          resolver.rust_type, <<>>, <<>>, resolver.depth + 1)
  /\ UNCHANGED <<splitter, numbering, enumr, prog>>

\* A field of type HashMap<K, V> or BTreeMap<K, V>, the current expression its key.
WrapMapKey(open, v) ==
  /\ resolver.depth < MaxWraps
  /\ resolver' = Resolved(open \o resolver.rust_type \o <<",", " ">> \o v \o <<">">>, "Map",
                          <<>>, resolver.rust_type, v, resolver.depth + 1)
  /\ UNCHANGED <<splitter, numbering, enumr, prog>>

\* The same, the current expression its value.
WrapMapValue(open, k) ==
  /\ resolver.depth < MaxWraps
  /\ resolver' = Resolved(open \o k \o <<",", " ">> \o resolver.rust_type \o <<">">>, "Map",
                          <<>>, k, resolver.rust_type, resolver.depth + 1)
  /\ UNCHANGED <<splitter, numbering, enumr, prog>>

\* A map written with one argument.
WrapMapOne(open) ==
  /\ resolver.depth < MaxWraps
  /\ resolver' = Resolved(open \o resolver.rust_type \o <<">">>, "Map1",
                          resolver.rust_type, <<>>, <<>>, resolver.depth + 1)
  /\ UNCHANGED <<splitter, numbering, enumr, prog>>

\* A map written with three arguments.
WrapMapThree(open, k) ==
  /\ resolver.depth < MaxWraps
  /\ resolver' = Resolved(open \o k \o <<",", " ">> \o resolver.rust_type \o <<",", " ">>
                            \o k \o <<">">>, "Map3",
                          resolver.rust_type, <<>>, <<>>, resolver.depth + 1)
  /\ UNCHANGED <<splitter, numbering, enumr, prog>>

TypesNext ==
  \/ WrapVec
  \/ WrapOption
  \/ \E open \in MapOpens, t \in MapPartners : WrapMapKey(open, t)
  \/ \E open \in MapOpens, t \in MapPartners : WrapMapValue(open, t)
  \/ \E open \in MapOpens : WrapMapOne(open)
  \/ \E open \in MapOpens, t \in MapPartners : WrapMapThree(open, t)

SpecTypes == TypesInit /\ [][TypesNext]_vars

(***************************************************************************)
(* Claims about the resolver (SpecTypes)                                   *)
(***************************************************************************)

\* resolve(T) as a field type, for the formulas below.
AsField(t) == rust_type_to_protobuf(t, KnownTypes, FALSE)

\* resolve(K) as a map key.
AsKey(t) == rust_type_to_protobuf(t, KnownTypes, TRUE)

\* Option<T> for some accepted T.
IsOptionOfAccepted(e) ==
  /\ StartsWith(e, sOptionOpen)
  /\ EndsWith(e, <<">">>)
  /\ AsField(SubSeq(e, Len(sOptionOpen) + 1, Len(e) - 1)).ok

\* Vec<T> for some accepted T other than u8.
IsVecOfAccepted(e) ==
  /\ StartsWith(e, sVecOpen)
  /\ EndsWith(e, <<">">>)
  /\ e # tBytes
  /\ AsField(SubSeq(e, Len(sVecOpen) + 1, Len(e) - 1)).ok

\* C1: for every accepted T whose result does not begin with `optional`, Option<T>
\* resolves to "optional " followed by the result for T, whatever the shape of T;
\* and Option<Option<T>> fails with the double-wrapped error.
C1_OptionWraps ==
  resolver.wrap = "Option" =>
    /\ (AsField(resolver.inner).ok /\ ~StartsWith(AsField(resolver.inner).val, sOptional))
         => resolver.result = Ok(sOptional \o <<" ">> \o AsField(resolver.inner).val)
    /\ IsOptionOfAccepted(resolver.inner) => resolver.result = Err("double_optional")

\* C2: for every accepted T whose result is not a repeated type, Vec<T> resolves to
\* "repeated " followed by the result for T, a declared name spelt `repeated...`
\* included; and Vec<Vec<T>> (T other than u8) fails with the double-wrapped error.
\* (Vec<u8> is the byte sequence of the scalar table and is left out here.)
C2_VecWraps ==
  resolver.wrap = "Vec" =>
    /\ (AsField(resolver.inner).ok /\ resolver.inner # tU8
        /\ ~StartsWith(AsField(resolver.inner).val, sRepeated \o <<" ">>))
         => resolver.result = Ok(sRepeated \o <<" ">> \o AsField(resolver.inner).val)
    /\ IsVecOfAccepted(resolver.inner) => resolver.result = Err("double_repeated")

FloatOrBytes == {ScalarTable[k].rust : k \in {j \in 1..Len(ScalarTable) : ~ScalarTable[j].key}}

KeyScalars == Scalars \ FloatOrBytes

\* C3: a map whose key is a floating-point type or Vec<u8> fails with the
\* unsupported-map-key error, whatever its value; the same types resolve when they
\* are not a key; the integer, bool and String scalars are accepted as keys.
C3_MapKeyRejected ==
  /\ (resolver.wrap = "Map" /\ resolver.key \in FloatOrBytes)
       => (~resolver.result.ok /\ resolver.result.err = "unsupported_key")
  /\ (resolver.wrap = "none" /\ resolver.rust_type \in FloatOrBytes) => resolver.result.ok
  /\ (resolver.wrap = "Map" /\ resolver.key \in KeyScalars /\ ~resolver.result.ok)
       => resolver.result.err # "unsupported_key"

\* C10: when K resolves as a key and V resolves as a field type, the map of K and V
\* resolves to `map<` K `, ` V `>`, also when an argument is a Vec, an Option or a
\* map and whatever the length of the key's name; a map written with one or three
\* arguments fails with the wrong-arity error.
C10_MapResolves ==
  /\ (resolver.wrap = "Map" /\ AsKey(resolver.key).ok /\ AsField(resolver.value).ok)
       => resolver.result = Ok(sMapOpen \o AsKey(resolver.key).val \o <<",", " ">>
                               \o AsField(resolver.value).val \o <<">">>)
  /\ resolver.wrap \in {"Map1", "Map3"} => resolver.result = Err("wrong_arity")

(***************************************************************************)
(* Claims about the splitter (SpecSplit)                                   *)
(***************************************************************************)

IsOpener(c) == c \in {"<", "(", "["}

IsCloser(c) == c \in {">", ")", "]"}

Partner(c) == CASE c = ">" -> "<" [] c = ")" -> "(" [] c = "]" -> "["

Bad == <<"bad">>

\* The delimiters still open after s[1..n], or Bad when a closer met no opener
\* of its kind on top.
RECURSIVE OpenAfter(_, _)
OpenAfter(s, n) ==
  IF n = 0 THEN <<>>
  ELSE LET before == OpenAfter(s, n - 1)
       IN IF before = Bad THEN Bad
          ELSE IF IsOpener(s[n]) THEN Append(before, s[n])
          ELSE IF IsCloser(s[n])
          THEN IF before # <<>> /\ before[Len(before)] = Partner(s[n])
               THEN SubSeq(before, 1, Len(before) - 1)
               ELSE Bad
          ELSE before

\* Properly nested and balanced.
Balanced(s) == OpenAfter(s, Len(s)) = <<>>

\* A closer with no opener or with an opener of another kind on top.
CloserMismatch(s) == OpenAfter(s, Len(s)) = Bad

\* The commas of s outside every delimiter pair.
TopCommas(s) == {i \in 1..Len(s) : s[i] = "," /\ OpenAfter(s, i - 1) = <<>>}

\* The texts between consecutive top-level commas, in order.
Pieces(s) ==
  LET cuts == TopCommas(s) \cup {0, Len(s) + 1}
      Nth(k) == CHOOSE c \in cuts : Cardinality({d \in cuts : d < c}) = k
  IN [k \in 1..(Cardinality(cuts) - 1) |-> SubSeq(s, Nth(k - 1) + 1, Nth(k) - 1)]

\* C4: on a balanced input the splitter cuts at every top-level comma and nowhere
\* else: n top-level commas give the n+1 untrimmed texts between them, in order,
\* whatever the length of each argument.
C4_SplitsAtTopCommas ==
  (splitter.done /\ Balanced(splitter.inner))
    => splitter.result = Ok(Pieces(splitter.inner))

\* C9: the splitter answers the mismatched-delimiters error exactly when the
\* delimiters of its input are not properly nested and balanced, an opener left
\* unclosed at the end included.
C9_MismatchIffUnbalanced ==
  splitter.done =>
    (splitter.result = Err("mismatched") <=> ~Balanced(splitter.inner))

(***************************************************************************)
(* SpecNum: the loop of parse_struct_fields over the lines of one struct,  *)
(* one iteration a step.  The fields pushed are summarised by their count  *)
(* and the numbers of the last two.                                        *)
(***************************************************************************)

\* Lines walked from the first line on.
MaxLines == 19050

\* The second walk starts this many numbers below the limit.
NearLimit == 40

\* let mut fields = vec![]; let mut value_cntr = 1i32;
NumStart == [value_cntr |-> 1, nfields |-> 0, last_num |-> 0, prev_num |-> 0,
             status |-> "running"]

\* The loop after FieldNumLimit - NearLimit - 1 - (ReservedSkipTo - ReservedFrom)
\* iterations: the state the iterations from NumStart arrive at, every line having
\* resolved.
NumLate ==
  LET c == FieldNumLimit - NearLimit
  IN [value_cntr |-> c, nfields |-> c - 1 - (ReservedSkipTo - ReservedFrom),
      last_num |-> c - 1, prev_num |-> c - 2, status |-> "running"]

NumInit ==
  /\ numbering \in {NumStart, NumLate}
  /\ splitter = IdleSplitter
  /\ resolver = IdleResolver
  /\ enumr = IdleEnumr
  /\ prog = IdleProg

NumMayWalk ==
  \/ numbering.nfields < MaxLines
  \/ numbering.value_cntr >= FieldNumLimit - NearLimit

\* One line whose type resolves: its field is pushed with field_num = value_cntr,
\* then the counter moves on; at the limit the function returns the error and the
\* fields are dropped with it.
NumLine ==
  /\ numbering.status = "running"
  /\ NumMayWalk
  /\ LET b == BumpCntr(numbering.value_cntr)
     IN numbering' =
          IF b.too_big
          THEN [value_cntr |-> b.value_cntr, nfields |-> 0, last_num |-> 0,
                prev_num |-> 0, status |-> "too_big"]
          ELSE [value_cntr |-> b.value_cntr, nfields |-> numbering.nfields + 1,
                last_num |-> numbering.value_cntr, prev_num |-> numbering.last_num,
                status |-> "running"]
  /\ UNCHANGED <<splitter, resolver, enumr, prog>>

\* One line whose type does not resolve: `?` returns the error, the fields are dropped.
NumLineFails ==
  /\ numbering.status = "running"
  /\ NumMayWalk
  /\ numbering' = [numbering EXCEPT !.nfields = 0, !.last_num = 0, !.prev_num = 0,
                                    !.status = "unresolved"]
  /\ UNCHANGED <<splitter, resolver, enumr, prog>>

\* No line is left: Ok(fields).
NumEnd ==
  /\ numbering.status = "running"
  /\ numbering' = [numbering EXCEPT !.status = "ok"]
  /\ UNCHANGED <<splitter, resolver, enumr, prog>>

NumNext == NumLine \/ NumLineFails \/ NumEnd

SpecNum == NumInit /\ [][NumNext]_vars

\* C5: in every accepted struct the field numbers increase strictly in line order,
\* the first is 1, the k-th is k up to 18999, the next is 20000 and the numbers go
\* on by one from there; none lies in 19000..19999 and none exceeds 536,870,911.
C5_FieldNumbers ==
  (numbering.status = "ok" /\ numbering.nfields >= 1) =>
    /\ numbering.last_num =
         IF numbering.nfields <= 18999 THEN numbering.nfields
         ELSE 20000 + (numbering.nfields - 19000)
    /\ numbering.nfields >= 2 => numbering.prev_num < numbering.last_num
    /\ numbering.last_num \notin 19000..19999
    /\ numbering.last_num <= 536870911

\* An accepted struct of 19000 lines: its last field carries 20000.
C5_Witness ==
  numbering.status = "ok" /\ numbering.nfields = 19000 /\ numbering.last_num = 20000

\* The number carried by the line read in the iteration that gave the struct up:
\* the counter was incremented once after that line's field was pushed.
TooBigAtNumber == numbering.value_cntr - 1

\* C11: a struct is rejected as too large exactly when one of its lines needs a
\* field number above 536,870,911: no line that is read ever needs more than the
\* limit allows without the struct being given up, a struct is given up only at a
\* line whose number exceeds 536,870,911 (so one whose last line carries exactly
\* 536,870,911 is accepted), and a struct given up contributes no field.
C11_TooBigIffOverflow ==
  /\ numbering.status = "running" => numbering.value_cntr <= FieldNumLimit - 1
  /\ numbering.status = "too_big" => TooBigAtNumber > FieldNumLimit - 1
  /\ numbering.status = "too_big" => numbering.nfields = 0

(***************************************************************************)
(* SpecEnum: parse_enum_fields applied to enum bodies                      *)
(***************************************************************************)

MaxVariants == 3

\* Variant lines as parse() hands them over: trimmed, with their separator and
\* possibly a trailing comment.
EnumLines == { <<"R","e","d",",">>, <<"G","r","e","e","n">>, <<"B","l","u","e",","," ","/","/"," ","l","a","s","t">>, <<"R","g","b","(","u","8",")",",">>, <<"O","f","f",","," ","/","/"," ","(","0",")">>, <<"R","a","w","(","A",")"," ","/","/"," ","x">> }

EnumInit ==
  /\ enumr = [variants_str |-> <<>>, done |-> FALSE, result |-> None]
  /\ splitter = IdleSplitter
  /\ resolver = IdleResolver
  /\ numbering = IdleNumbering
  /\ prog = IdleProg

\* The enum body has one more line.
EnumExtend(line) ==
  /\ ~enumr.done
  /\ Len(enumr.variants_str) < MaxVariants
  /\ enumr' = [enumr EXCEPT !.variants_str = Append(@, line)]
  /\ UNCHANGED <<splitter, resolver, numbering, prog>>

EnumCall ==
  /\ ~enumr.done
  /\ enumr' = [enumr EXCEPT !.done = TRUE,
                            !.result = parse_enum_fields(enumr.variants_str)]
  /\ UNCHANGED <<splitter, resolver, numbering, prog>>

EnumNext == (\E line \in EnumLines : EnumExtend(line)) \/ EnumCall

SpecEnum == EnumInit /\ [][EnumNext]_vars

\* The line holds an opening parenthesis.
HasParen(line) == \E i \in 1..Len(line) : line[i] = "("

\* The line holds an opening parenthesis before its trailing `//` comment, if any.
HasParenBeforeComment(line) ==
  \E i \in 1..Len(line) :
    /\ line[i] = "("
    /\ \A j \in 1..(i - 1) : ~OccursAt(line, <<"/", "/">>, j)

\* N variants, in line order, valued 0..N-1.
NumberedInOrder(variants_str, result) ==
  /\ result.ok
  /\ Len(result.val) = Len(variants_str)
  /\ \A k \in 1..Len(variants_str) :
       /\ result.val[k].value = k - 1
       /\ StartsWith(variants_str[k], result.val[k].name)

\* C8 as stated: N lines without an opening parenthesis give N variants valued
\* 0..N-1 in source order; a line with an opening parenthesis rejects the enum.
C8_EnumAsStated ==
  enumr.done =>
    IF \E k \in 1..Len(enumr.variants_str) : HasParen(enumr.variants_str[k])
    THEN ~enumr.result.ok
    ELSE NumberedInOrder(enumr.variants_str, enumr.result)

\* C8 amended: the parenthesis that rejects the enum is one before the line's
\* trailing comment; a parenthesis inside the comment is dropped with the comment.
C8_EnumNumbering ==
  enumr.done =>
    IF \E k \in 1..Len(enumr.variants_str) : HasParenBeforeComment(enumr.variants_str[k])
    THEN ~enumr.result.ok /\ enumr.result.err = "value_variant"
    ELSE NumberedInOrder(enumr.variants_str, enumr.result)

\* Three accepted variants, one of them with a parenthesis in its comment.
C8_Witness ==
  /\ enumr.done
  /\ enumr.result.ok
  /\ Len(enumr.result.val) = 3
  /\ enumr.result.val[3].value = 2
  /\ \E k \in 1..3 : HasParen(enumr.variants_str[k])

(***************************************************************************)
(* Spec: the program.  main() builds a Parser, parse() scans the files of  *)
(* the crate, resolves the structs and then the enums into the registry,   *)
(* and main() writes the generated document or panics.  A file is given by *)
(* what struct_re and enum_re capture in it: the structs in their order,   *)
(* then the enums in theirs, each a name and the lines of its body.        *)
(***************************************************************************)

MaxFiles == 2

tKind == <<"K","i","n","d">>

\* struct Foo { pub id: i32, name: String }
StructFooA == [name |-> tFoo, body |-> << <<" "," ","p","u","b"," ","i","d",":"," ","i","3","2",",">>,
       <<" "," ","n","a","m","e",":"," ","S","t","r","i","n","g",",">> >>]

\* struct Foo { tags: Vec<String> }, with an attribute and an empty line
StructFooB == [name |-> tFoo, body |-> << <<" "," ","#","[","s","e","r","d","e","(","d","e","f","a","u","l","t",")","]">>,
       <<>>,
       <<" "," ","t","a","g","s",":"," ","V","e","c","<","S","t","r","i","n","g",">",","," ","/","/"," ","l","a","b","e","l","s">> >>]

\* struct Foo { x: Missing }: no declaration introduces Missing
StructFooBad == [name |-> tFoo, body |-> << <<" "," ","x",":"," ","M","i","s","s","i","n","g",",">> >>]

\* struct Bar(Foo);
StructBar == [name |-> tBar, body |-> << <<"F","o","o">> >>]

\* enum Foo { On, Off }
EnumFoo == [name |-> tFoo, body |-> << <<" "," ","O","n",",">>,
       <<" "," ","O","f","f",",">> >>]

\* enum Kind { Rgb(u8) }
EnumKindBad == [name |-> tKind, body |-> << <<" "," ","R","g","b","(","u","8",")",",">> >>]

\* enum Kind { Small, Large }
EnumKind == [name |-> tKind, body |-> << <<" "," ","/","/"," ","s","i","z","e","s">>,
       <<" "," ","S","m","a","l","l",",">>,
       <<" "," ","L","a","r","g","e">> >>]

FileCatalogue == {
  [structs |-> <<StructFooA>>, enums |-> <<>>],
  [structs |-> <<StructFooB, StructBar>>, enums |-> <<>>],
  [structs |-> <<StructFooBad>>, enums |-> <<EnumKind>>],
  [structs |-> <<>>, enums |-> <<EnumFoo>>],
  [structs |-> <<>>, enums |-> <<EnumKind, EnumKindBad>>],
  [structs |-> <<StructBar>>, enums |-> <<EnumKindBad>>] }

RECURSIVE FileSeqs(_)
FileSeqs(n) ==
  IF n = 0 THEN {<<>>}
  ELSE LET shorter == FileSeqs(n - 1)
       IN shorter \cup {Append(fs, f) : fs \in shorter, f \in FileCatalogue}

Keep(decls) == [k \in 1..Len(decls) |->
                  [name |-> decls[k].name, lines |-> FilterLines(decls[k].body)]]

Names(decls) == {decls[k].name : k \in 1..Len(decls)}

\* Parser::new, and the locals of parse() before its first file.
Init ==
  /\ prog \in {[pc |-> "scan", files |-> fs, panic_to_unsupported |-> strict,
                next_file |-> 1, messages |-> <<>>, enums |-> <<>>,
                known_types |-> {}, dublicates |-> 0,
                next_message |-> 1, next_enum |-> 1, types |-> <<>>,
                warnings |-> <<>>, parse_result |-> None, output |-> None]
               : fs \in FileSeqs(MaxFiles), strict \in BOOLEAN}
  /\ splitter = IdleSplitter
  /\ resolver = IdleResolver
  /\ numbering = IdleNumbering
  /\ enumr = IdleEnumr

RECURSIVE CountDublicates(_, _)
\* How often known_types.insert answers false over the names, in order.
CountDublicates(names, known) ==
  IF names = <<>> THEN 0
  ELSE (IF Head(names) \in known THEN 1 ELSE 0)
       + CountDublicates(Tail(names), known \cup {Head(names)})

\* One file of the walk: its structs, then its enums, are pushed and their names
\* inserted into known_types.
ScanFile ==
  /\ prog.pc = "scan"
  /\ prog.next_file <= Len(prog.files)
  /\ LET f == prog.files[prog.next_file]
         order == [k \in 1..(Len(f.structs) + Len(f.enums)) |->
                     IF k <= Len(f.structs) THEN f.structs[k].name
                     ELSE f.enums[k - Len(f.structs)].name]
     IN prog' = [prog EXCEPT
                   !.messages = @ \o Keep(f.structs),
                   !.enums = @ \o Keep(f.enums),
                   !.known_types = @ \cup Names(f.structs) \cup Names(f.enums),
                   !.dublicates = @ + CountDublicates(order, prog.known_types),
                   !.next_file = @ + 1]
  /\ UNCHANGED <<splitter, resolver, numbering, enumr>>

\* Where parse() is once message m and enum e are the next to resolve.
PcAt(p, m, e) ==
  IF m <= Len(p.messages) THEN "messages"
  ELSE IF e <= Len(p.enums) THEN "enums"
  ELSE "parsed"

\* The walk is over: parse() returns Ok at once when nothing was found, and goes on
\* to the messages otherwise.
ScanDone ==
  /\ prog.pc = "scan"
  /\ prog.next_file > Len(prog.files)
  /\ prog' = IF prog.known_types = {}
             THEN [prog EXCEPT !.pc = "parsed", !.parse_result = Ok(<<>>)]
             ELSE LET pc == PcAt(prog, 1, 1)
                  IN [prog EXCEPT !.pc = pc,
                                  !.parse_result = IF pc = "parsed" THEN Ok(<<>>) ELSE None]
  /\ UNCHANGED <<splitter, resolver, numbering, enumr>>

\* An entity failed and the run goes on all the same.
EntityErrorIgnored(p, name, e, m, n) ==
  LET pc == PcAt(p, m, n)
  IN [p EXCEPT !.warnings = Append(@, name), !.next_message = m, !.next_enum = n,
               !.pc = pc, !.parse_result = IF pc = "parsed" THEN Ok(<<>>) ELSE None]

\* The Err arm of the two loops: return the error when panic_to_unsupported is set,
\* print the warning and go on otherwise.
EntityError(p, name, e, m, n) ==
  IF p.panic_to_unsupported
  THEN [p EXCEPT !.pc = "failed",
                 !.parse_result = [ok |-> FALSE, entity |-> name, cause |-> e]]
  ELSE LET pc == PcAt(p, m, n)
       IN [p EXCEPT !.warnings = Append(@, name), !.next_message = m, !.next_enum = n,
                    !.pc = pc, !.parse_result = IF pc = "parsed" THEN Ok(<<>>) ELSE None]

\* The Ok arm of the two loops.
EntityOk(p, name, entity, m, n) ==
  LET pc == PcAt(p, m, n)
  IN [p EXCEPT !.types = Insert(@, name, entity), !.next_message = m, !.next_enum = n,
               !.pc = pc, !.parse_result = IF pc = "parsed" THEN Ok(<<>>) ELSE None]

\* One iteration of `for message in messages`.
ProcessMessage ==
  /\ prog.pc = "messages"
  /\ LET message == prog.messages[prog.next_message]
         r == parse_struct_fields(message.lines, prog.known_types)
     IN prog' = IF r.ok
                THEN EntityOk(prog, message.name, [kind |-> "Message", items |-> r.val],
                              prog.next_message + 1, prog.next_enum)
                ELSE EntityError(prog, message.name, r,
                                 prog.next_message + 1, prog.next_enum)
  /\ UNCHANGED <<splitter, resolver, numbering, enumr>>

\* One iteration of `for r#enum in enums`.
ProcessEnum ==
  /\ prog.pc = "enums"
  /\ LET enum == prog.enums[prog.next_enum]
         r == parse_enum_fields(enum.lines)
     IN prog' = IF r.ok
                THEN EntityOk(prog, enum.name, [kind |-> "Enum", items |-> r.val],
                              prog.next_message, prog.next_enum + 1)
                ELSE EntityError(prog, enum.name, r,
                                 prog.next_message, prog.next_enum + 1)
  /\ UNCHANGED <<splitter, resolver, numbering, enumr>>

\* main(): Ok(()) => the generated document is written to the output file.
MainWrites ==
  /\ prog.pc = "parsed"
  /\ prog' = [prog EXCEPT !.pc = "written", !.output = generate(prog.types)]
  /\ UNCHANGED <<splitter, resolver, numbering, enumr>>

\* main(): Err(err) => panic!
MainPanics ==
  /\ prog.pc = "failed"
  /\ prog' = [prog EXCEPT !.pc = "panicked"]
  /\ UNCHANGED <<splitter, resolver, numbering, enumr>>

Next ==
  \/ ScanFile
  \/ ScanDone
  \/ ProcessMessage
  \/ ProcessEnum
  \/ MainWrites
  \/ MainPanics

Spec == Init /\ [][Next]_vars

(***************************************************************************)
(* Claims about the registry and the run (Spec)                            *)
(***************************************************************************)

Tagged(kind, decls) ==
  [k \in 1..Len(decls) |-> [kind |-> kind, name |-> decls[k].name, body |-> decls[k].body]]

\* The declarations in the order the scan meets them: file by file, the structs of
\* a file, then its enums.
RECURSIVE ScanOrder(_)
ScanOrder(files) ==
  IF files = <<>> THEN <<>>
  ELSE Tagged("Message", Head(files).structs) \o Tagged("Enum", Head(files).enums)
       \o ScanOrder(Tail(files))

IsMessage(d) == d.kind = "Message"

IsEnum(d) == d.kind = "Enum"

\* The declarations in the order parse() resolves them: every struct, in scan
\* order, then every enum, in scan order.
ProcessingOrder(files) ==
  SelectSeq(ScanOrder(files), IsMessage) \o SelectSeq(ScanOrder(files), IsEnum)

DeclaredNames(files) == {ScanOrder(files)[k].name : k \in 1..Len(ScanOrder(files))}

\* The names declared more than once.
DuplicateNames(files) ==
  {n \in DeclaredNames(files) :
     Cardinality({k \in 1..Len(ScanOrder(files)) : ScanOrder(files)[k].name = n}) >= 2}

\* What declaration d alone resolves to, every declared name being known.
Resolution(d, files) ==
  IF d.kind = "Message"
  THEN parse_struct_fields(FilterLines(d.body), DeclaredNames(files))
  ELSE parse_enum_fields(FilterLines(d.body))

Resolves(d, files) == Resolution(d, files).ok

EntityOf(d, files) == [kind |-> d.kind, items |-> Resolution(d, files).val]

\* The last declaration of name n in the sequence of declarations.
LastNamed(n, decls) ==
  decls[Max({k \in 1..Len(decls) : decls[k].name = n})]

\* The first declaration of the sequence that does not resolve.
FirstFailing(decls, files) ==
  decls[Min({k \in 1..Len(decls) : ~Resolves(decls[k], files)})]

SomeFails(files) ==
  \E k \in 1..Len(ScanOrder(files)) : ~Resolves(ScanOrder(files)[k], files)

\* How many entities called n the document holds.
Rendered(output, n) ==
  Cardinality({k \in 1..Len(output) :
                 output[k] \in {sMessage \o n \o <<" ", "{">>, sEnum \o n \o <<" ", "{">>}})

\* The declarations of name n that resolve, in processing order.
GoodNamed(n, files) ==
  LET decls == ProcessingOrder(files)
  IN [j \in 1..Cardinality({k \in 1..Len(decls) :
                              decls[k].name = n /\ Resolves(decls[k], files)}) |->
        decls[CHOOSE k \in 1..Len(decls) :
                /\ decls[k].name = n /\ Resolves(decls[k], files)
                /\ Cardinality({i \in 1..k : decls[i].name = n
                                             /\ Resolves(decls[i], files)}) = j]]

\* Every declaration of name n resolves.
AllResolve(n, files) ==
  \A k \in 1..Len(ScanOrder(files)) :
    ScanOrder(files)[k].name = n => Resolves(ScanOrder(files)[k], files)

\* C6 as stated: a name declared twice (by declarations that resolve) ends as
\* exactly one entity, that of the declaration met later in the scan, and the
\* duplicate never fails the run.
C6_LaterInScanWins ==
  /\ prog.pc = "written" =>
       \A n \in DuplicateNames(prog.files) :
         AllResolve(n, prog.files) =>
           /\ n \in DOMAIN prog.types
           /\ prog.types[n] = EntityOf(LastNamed(n, ScanOrder(prog.files)), prog.files)
           /\ Rendered(prog.output, n) = 1
  /\ prog.pc \in {"failed", "panicked"} => SomeFails(prog.files)

\* C6 amended: a name declared more than once ends as at most one entity, that of
\* the last declaration of the name that resolves, in the order parse() resolves
\* them (the structs, then the enums); it is absent when none resolves; the
\* duplicate never fails the run.
C6_LastResolvedWins ==
  /\ prog.pc = "written" =>
       \A n \in DuplicateNames(prog.files) :
         IF GoodNamed(n, prog.files) = <<>>
         THEN n \notin DOMAIN prog.types /\ Rendered(prog.output, n) = 0
         ELSE /\ n \in DOMAIN prog.types
              /\ prog.types[n] = EntityOf(GoodNamed(n, prog.files)[Len(GoodNamed(n, prog.files))],
                                          prog.files)
              /\ Rendered(prog.output, n) = 1
  /\ prog.pc \in {"failed", "panicked"} => SomeFails(prog.files)

\* A struct declared after an enum of its name: the document is written and the
\* registry holds the enum.
C6_Witness ==
  /\ prog.pc = "written"
  /\ \E n \in DuplicateNames(prog.files) :
       /\ LastNamed(n, ScanOrder(prog.files)).kind = "Message"
       /\ Resolves(LastNamed(n, ScanOrder(prog.files)), prog.files)
       /\ n \in DOMAIN prog.types
       /\ prog.types[n].kind = "Enum"
       /\ Rendered(prog.output, n) = 1

\* The strict half of C7: the first entity that fails makes parse() return the
\* error with that entity's cause, and no document is written.
StrictAborts ==
  /\ prog.pc \in {"failed", "panicked"} =>
       /\ prog.panic_to_unsupported
       /\ SomeFails(prog.files)
       /\ prog.parse_result =
            [ok |-> FALSE,
             entity |-> FirstFailing(ProcessingOrder(prog.files), prog.files).name,
             cause |-> Resolution(FirstFailing(ProcessingOrder(prog.files), prog.files),
                                  prog.files)]
  /\ (prog.panic_to_unsupported /\ SomeFails(prog.files)) =>
       (prog.output = None /\ prog.pc \notin {"parsed", "written"})

\* C7 as stated: in lenient mode no entity bears the name of a declaration that
\* fails to resolve, every declaration that resolves has its name in the registry,
\* and parse() returns Ok; in strict mode the first failure aborts the run.
C7_FailedNameAbsent ==
  /\ (~prog.panic_to_unsupported /\ prog.pc = "written") =>
       /\ prog.parse_result.ok
       /\ \A k \in 1..Len(ScanOrder(prog.files)) :
            IF Resolves(ScanOrder(prog.files)[k], prog.files)
            THEN ScanOrder(prog.files)[k].name \in DOMAIN prog.types
            ELSE /\ ScanOrder(prog.files)[k].name \notin DOMAIN prog.types
                 /\ Rendered(prog.output, ScanOrder(prog.files)[k].name) = 0
  /\ StrictAborts

\* C7 amended: in lenient mode a declaration that fails to resolve adds nothing:
\* a name is in the registry and the document exactly when some declaration of it
\* resolves, and then with the whole of such a declaration; parse() returns Ok.
\* The strict half is as stated.
C7_FailedDeclarationAddsNothing ==
  /\ (~prog.panic_to_unsupported /\ prog.pc = "written") =>
       /\ prog.parse_result.ok
       /\ \A n \in DeclaredNames(prog.files) :
            IF GoodNamed(n, prog.files) = <<>>
            THEN n \notin DOMAIN prog.types /\ Rendered(prog.output, n) = 0
            ELSE /\ n \in DOMAIN prog.types
                 /\ \E j \in 1..Len(GoodNamed(n, prog.files)) :
                      prog.types[n] = EntityOf(GoodNamed(n, prog.files)[j], prog.files)
                 /\ Rendered(prog.output, n) = 1
       /\ DOMAIN prog.types \subseteq DeclaredNames(prog.files)
  /\ StrictAborts

\* A lenient run that dropped a failing entity and kept another.
C7_Witness ==
  /\ ~prog.panic_to_unsupported
  /\ prog.pc = "written"
  /\ prog.warnings # <<>>
  /\ \E k \in 1..Len(ScanOrder(prog.files)) :
       /\ ~Resolves(ScanOrder(prog.files)[k], prog.files)
       /\ ScanOrder(prog.files)[k].name \notin DOMAIN prog.types
  /\ DOMAIN prog.types # {}

====
